---- MODULE Spec2Model ----
(***************************************************************************)
(* A model of the document writer's durable commit (PdfGen::write), of the *)
(* page / pattern registration paths (PdfGen::add_page, add_pattern,       *)
(* DrawContextPopper), of the UTF-8 codepoint decoder                      *)
(* (CodepointIterator::extract_one_codepoint) and of the text measuring    *)
(* routine (PdfGen::utf8_text_width).                                      *)
(*                                                                         *)
(* Four specifications share the variables:                                *)
(*   Spec       one session committing its document: PdfGen::write()       *)
(*   SpecScope  drawing contexts handed to the page and pattern registries *)
(*   SpecUtf    the decoder applied along well-formed UTF-8 buffers        *)
(*   SpecWidth  utf8_text_width applied to fonts and texts                 *)
(***************************************************************************)
EXTENDS Integers, Sequences, FiniteSets, TLC

VARIABLES
    ctxs,       \* PdfDrawContext objects: id -> [state, type, cmds, guarded, w, h]
    pages,      \* pdoc.pages: the page registry, in order of registration
    patterns,   \* the pattern registry filled by pdoc.add_pattern
    call,       \* the last add_page / add_pattern call and what it returned
    pc,         \* position of the process: inside write(), returned, crashed, aborted
    ret,        \* the ErrorCode write() returned
    ofile,      \* FILE *ofile of write(): "none", "open" or "closed"
    obuf,       \* data held in ofile's stdio buffer, not yet handed to the OS
    temp,       \* the file at "<ofilename>~"
    final,      \* the file at ofilename
    trace,      \* library calls made by the current write(), with their outcome
    before,     \* both files as they were when the current write() was called
    prevFail,   \* the failing stage and error code of the previous failed write()
    buf,        \* the UTF-8 buffer being decoded
    pos,        \* 1-based offset of the next undecoded byte of buf
    out,        \* the CharInfo values decoded so far
    tw          \* the last utf8_text_width call and its outcome

vars == <<ctxs, pages, patterns, call, pc, ret, ofile, obuf, temp, final, trace,
          before, prevFail, buf, pos, out, tw>>

scopeVars == <<ctxs, patterns, call>>
writeVars == <<pc, ret, ofile, obuf, temp, final, trace, before, prevFail>>
utfVars   == <<buf, pos, out>>

(***************************************************************************)
(* Bounds of the model.                                                    *)
(***************************************************************************)
MaxPages == 2
MaxCtx == 2
MaxPatterns == 1
MaxChars == 2
MaxTextLen == 2

(***************************************************************************)
(* Drawing context types.                                                  *)
(***************************************************************************)
A4PDF_Page_Context == "A4PDF_Page_Context"
A4PDF_Color_Tiling_Pattern_Context == "A4PDF_Color_Tiling_Pattern_Context"
ContextTypes == {A4PDF_Page_Context, A4PDF_Color_Tiling_Pattern_Context}

(***************************************************************************)
(* Files.  A file holds a sequence of chunks; synced says that its data    *)
(* has been forced to stable storage.                                      *)
(***************************************************************************)
NoFile == [exists |-> FALSE, data |-> <<>>, synced |-> TRUE]

OldDocument == <<"old">>

OldFile == [exists |-> TRUE, data |-> OldDocument, synced |-> TRUE]

StaleTemp == [exists |-> TRUE, data |-> <<"stale">>, synced |-> TRUE]

\* What pdoc.write_to_file hands to the stream, chunk by chunk.
Serialize(pgs) == <<"header">> \o pgs \o <<"trailer">>

NoCall == [op |-> "none", ctx |-> 0, result |-> "none", id |-> -1]

NoFail == [stage |-> "none", code |-> "none"]

NoSnapshot == [final |-> NoFile, temp |-> NoFile, pages |-> <<>>]

NoWidthCall == [fid |-> -1, text |-> <<>>, pointsize |-> 0, outcome |-> "none",
                w |-> 0, decoded |-> 0, advances |-> 0, kernings |-> 0]

\* The operators accumulated in a context: none (a new or cleared context)
\* or some.
NoCommands == ""

SomeCommands == "ops"

FreeCtx == [state |-> "free", type |-> "none", cmds |-> NoCommands, guarded |-> FALSE,
            w |-> 0, h |-> 0]

\* Tile sizes handed to new_color_pattern_builder(w, h).
TileSizes == {<<1, 2>>}

PageEntries == [ctx : {1}, commands : {NoCommands, SomeCommands}]

RECURSIVE SeqsUpTo(_, _)
SeqsUpTo(S, n) ==
    IF n = 0 THEN {<<>>}
    ELSE LET shorter == SeqsUpTo(S, n - 1)
         IN  shorter \cup {Append(s, x) : s \in shorter, x \in S}

(***************************************************************************)
(* PdfGen::write()                                                         *)
(***************************************************************************)
Logged(step, ok) == Append(trace, [step |-> step, ok |-> ok])

\* fclose(ofile) on a path that ignores its result: the buffer is written
\* out when the close succeeds; the stream is gone either way.
CleanupClose(tr, ok) ==
    /\ ofile' = "closed"
    /\ obuf' = <<>>
    /\ temp' = IF ok THEN [temp EXCEPT !.data = temp.data \o obuf, !.synced = FALSE]
               ELSE temp
    /\ trace' = Append(tr, [step |-> "fclose", ok |-> ok])

\* WriteCall without the zero-page check of the first lines of write().
WriteCall_NoPageCheck ==
    /\ pc = "idle"
    /\ before' = [final |-> final, temp |-> temp, pages |-> pages]
    /\ trace' = <<>>
    /\ ret' = "none"
    /\ pc' = "fopen"
    /\ UNCHANGED <<ofile, obuf, temp, final, prevFail>>
    /\ UNCHANGED <<pages, scopeVars, utfVars, tw>>

WriteCall ==
    /\ pc = "idle"
    /\ before' = [final |-> final, temp |-> temp, pages |-> pages]
    /\ trace' = <<>>
    /\ IF Len(pages) = 0
       THEN /\ ret' = "NoPages"
            /\ pc' = "returned"
       ELSE /\ ret' = "none"
            /\ pc' = "fopen"
    /\ UNCHANGED <<ofile, obuf, temp, final, prevFail>>
    /\ UNCHANGED <<pages, scopeVars, utfVars, tw>>

\* Fopen reporting a failed open with the code of a failed write.
Fopen_WrongCode ==
    /\ pc = "fopen"
    /\ \/ /\ ofile' = "open"
          /\ obuf' = <<>>
          /\ temp' = [exists |-> TRUE, data |-> <<>>, synced |-> FALSE]
          /\ trace' = Logged("fopen", TRUE)
          /\ pc' = "write_to_file"
          /\ UNCHANGED ret
       \/ /\ trace' = Logged("fopen", FALSE)
          /\ ret' = "FileWriteError"
          /\ pc' = "returned"
          /\ UNCHANGED <<ofile, obuf, temp>>
    /\ UNCHANGED <<final, before, prevFail>>
    /\ UNCHANGED <<pages, scopeVars, utfVars, tw>>

Fopen ==
    /\ pc = "fopen"
    /\ \/ /\ ofile' = "open"
          /\ obuf' = <<>>
          /\ temp' = [exists |-> TRUE, data |-> <<>>, synced |-> FALSE]
          /\ trace' = Logged("fopen", TRUE)
          /\ pc' = "write_to_file"
          /\ UNCHANGED ret
       \/ /\ trace' = Logged("fopen", FALSE)
          /\ ret' = "CouldNotOpenFile"
          /\ pc' = "returned"
          /\ UNCHANGED <<ofile, obuf, temp>>
    /\ UNCHANGED <<final, before, prevFail>>
    /\ UNCHANGED <<pages, scopeVars, utfVars, tw>>

Written == Len(temp.data) + Len(obuf)

\* One chunk of pdoc.write_to_file(ofile); stdio may hand its buffer to the
\* OS at any write.
WriteChunk ==
    /\ pc = "write_to_file"
    /\ Written < Len(Serialize(pages))
    /\ LET chunk == Serialize(pages)[Written + 1]
       IN  \/ /\ obuf' = Append(obuf, chunk)
              /\ UNCHANGED temp
           \/ /\ obuf' = <<>>
              /\ temp' = [temp EXCEPT !.data = temp.data \o obuf \o <<chunk>>]
    /\ UNCHANGED <<pc, ret, ofile, final, trace, before, prevFail>>
    /\ UNCHANGED <<pages, scopeVars, utfVars, tw>>

\* WriteDone going on to fsync without the fflush in between.
WriteDone_SkippingFlush ==
    /\ pc = "write_to_file"
    /\ Written = Len(Serialize(pages))
    /\ trace' = Logged("write_to_file", TRUE)
    /\ pc' = "fsync"
    /\ UNCHANGED <<ret, ofile, obuf, temp, final, before, prevFail>>
    /\ UNCHANGED <<pages, scopeVars, utfVars, tw>>

WriteDone ==
    /\ pc = "write_to_file"
    /\ Written = Len(Serialize(pages))
    /\ trace' = Logged("write_to_file", TRUE)
    /\ pc' = "fflush"
    /\ UNCHANGED <<ret, ofile, obuf, temp, final, before, prevFail>>
    /\ UNCHANGED <<pages, scopeVars, utfVars, tw>>

\* Both catch clauses: std::exception and anything else.
WriteThrow ==
    /\ pc = "write_to_file"
    /\ \E ok \in BOOLEAN : CleanupClose(Logged("write_to_file", FALSE), ok)
    /\ ret' = "DynamicError"
    /\ pc' = "returned"
    /\ UNCHANGED <<final, before, prevFail>>
    /\ UNCHANGED <<pages, scopeVars, utfVars, tw>>

\* Fflush whose result is not looked at: what the buffer held is lost and
\* write() goes on.
Fflush_IgnoringFailure ==
    /\ pc = "fflush"
    /\ \/ /\ temp' = [temp EXCEPT !.data = temp.data \o obuf]
          /\ trace' = Logged("fflush", TRUE)
       \/ /\ trace' = Logged("fflush", FALSE)
          /\ UNCHANGED temp
    /\ obuf' = <<>>
    /\ pc' = "fsync"
    /\ UNCHANGED <<ret, ofile>>
    /\ UNCHANGED <<final, before, prevFail>>
    /\ UNCHANGED <<pages, scopeVars, utfVars, tw>>

Fflush ==
    /\ pc = "fflush"
    /\ \/ /\ temp' = [temp EXCEPT !.data = temp.data \o obuf]
          /\ obuf' = <<>>
          /\ trace' = Logged("fflush", TRUE)
          /\ pc' = "fsync"
          /\ UNCHANGED <<ret, ofile>>
       \/ /\ \E ok \in BOOLEAN : CleanupClose(Logged("fflush", FALSE), ok)
          /\ ret' = "DynamicError"
          /\ pc' = "returned"
    /\ UNCHANGED <<final, before, prevFail>>
    /\ UNCHANGED <<pages, scopeVars, utfVars, tw>>

\* Fsync whose failure path returns without closing the stream.
Fsync_LeakingOnFailure ==
    /\ pc = "fsync"
    /\ \/ /\ temp' = [temp EXCEPT !.synced = TRUE]
          /\ trace' = Logged("fsync", TRUE)
          /\ pc' = "fclose"
          /\ UNCHANGED <<ret, ofile, obuf>>
       \/ /\ trace' = Logged("fsync", FALSE)
          /\ ret' = "FileWriteError"
          /\ pc' = "returned"
          /\ UNCHANGED <<ofile, obuf, temp>>
    /\ UNCHANGED <<final, before, prevFail>>
    /\ UNCHANGED <<pages, scopeVars, utfVars, tw>>

Fsync ==
    /\ pc = "fsync"
    /\ \/ /\ temp' = [temp EXCEPT !.synced = TRUE]
          /\ trace' = Logged("fsync", TRUE)
          /\ pc' = "fclose"
          /\ UNCHANGED <<ret, ofile, obuf>>
       \/ /\ \E ok \in BOOLEAN : CleanupClose(Logged("fsync", FALSE), ok)
          /\ ret' = "FileWriteError"
          /\ pc' = "returned"
    /\ UNCHANGED <<final, before, prevFail>>
    /\ UNCHANGED <<pages, scopeVars, utfVars, tw>>

Fclose ==
    /\ pc = "fclose"
    /\ ofile' = "closed"
    /\ \/ /\ temp' = IF obuf = <<>> THEN temp
                     ELSE [temp EXCEPT !.data = temp.data \o obuf, !.synced = FALSE]
          /\ obuf' = <<>>
          /\ trace' = Logged("fclose", TRUE)
          /\ pc' = "rename"
          /\ UNCHANGED ret
       \/ /\ obuf' = <<>>
          /\ trace' = Logged("fclose", FALSE)
          /\ ret' = "FileWriteError"
          /\ pc' = "returned"
          /\ UNCHANGED temp
    /\ UNCHANGED <<final, before, prevFail>>
    /\ UNCHANGED <<pages, scopeVars, utfVars, tw>>

Rename ==
    /\ pc = "rename"
    /\ \/ /\ final' = temp
          /\ temp' = NoFile
          /\ trace' = Logged("rename", TRUE)
          /\ ret' = "NoError"
       \/ /\ trace' = Logged("rename", FALSE)
          /\ ret' = "FileWriteError"
          /\ UNCHANGED <<final, temp>>
    /\ pc' = "returned"
    /\ UNCHANGED <<ofile, obuf, before, prevFail>>
    /\ UNCHANGED <<pages, scopeVars, utfVars, tw>>

\* The first failed library call of the current write(), "none" without one.
FailedStep ==
    LET bad == {i \in 1..Len(trace) : ~trace[i].ok}
    IN  IF bad = {} THEN "none"
        ELSE trace[CHOOSE i \in bad : \A j \in bad : i <= j].step

\* The three stages a caller wants to tell apart.
StageOf(step) ==
    CASE step = "fopen" -> "open"
      [] step \in {"write_to_file", "fflush", "fsync", "fclose"} -> "write"
      [] step = "rename" -> "rename"
      [] OTHER -> "none"

\* write() has returned and its caller goes on.
Return ==
    /\ pc = "returned"
    /\ pc' = "idle"
    /\ ofile' = "none"
    /\ prevFail' = IF FailedStep = "none" THEN prevFail
                   ELSE [stage |-> StageOf(FailedStep), code |-> ret]
    /\ UNCHANGED <<ret, obuf, temp, final, trace, before>>
    /\ UNCHANGED <<pages, scopeVars, utfVars, tw>>

\* What a crash may leave of a file: data never forced to disk can be cut
\* short anywhere.
CrashOutcomes(f) ==
    IF f.exists /\ ~f.synced
    THEN {[f EXCEPT !.data = SubSeq(f.data, 1, k)] : k \in 0..Len(f.data)}
    ELSE {f}

\* The process dies between two steps of write().
Crash ==
    /\ pc \in {"fopen", "write_to_file", "fflush", "fsync", "fclose", "rename", "returned"}
    /\ pc' = "crashed"
    /\ ofile' = "none"
    /\ obuf' = <<>>
    /\ temp' \in CrashOutcomes(temp)
    /\ final' \in CrashOutcomes(final)
    /\ UNCHANGED <<ret, trace, before, prevFail>>
    /\ UNCHANGED <<pages, scopeVars, utfVars, tw>>

Init ==
    /\ pages \in SeqsUpTo(PageEntries, MaxPages)
    /\ final \in {NoFile, OldFile}
    /\ temp \in {NoFile, StaleTemp}
    /\ pc = "idle"
    /\ ret = "none"
    /\ ofile = "none"
    /\ obuf = <<>>
    /\ trace = <<>>
    /\ before = NoSnapshot
    /\ prevFail = NoFail
    /\ ctxs = [c \in 1..MaxCtx |-> FreeCtx]
    /\ patterns = <<>>
    /\ call = NoCall
    /\ buf = <<>>
    /\ pos = 1
    /\ out = <<>>
    /\ tw = NoWidthCall

Next ==
    \/ WriteCall
    \/ Fopen
    \/ WriteChunk
    \/ WriteDone
    \/ WriteThrow
    \/ Fflush
    \/ Fsync
    \/ Fclose
    \/ Rename
    \/ Return
    \/ Crash

Spec == Init /\ [][Next]_vars

(***************************************************************************)
(* Properties of PdfGen::write(), checked under Spec.                      *)
(***************************************************************************)
NewDocument == Serialize(pages)

IsPartial(f) == f.exists /\ Len(f.data) > 0 /\ Len(f.data) < Len(NewDocument)

\* C1: at every point of write(), after a crash between any two of its steps
\* and at every return, the file at the output path is what it was when
\* write() was called (the old content, or no file) or the completely
\* serialized new document; never a part of it.
C1_FinalFileOldOrComplete ==
    pc # "idle" =>
        \/ final = before.final
        \/ final.exists /\ final.data = NewDocument

\* C1 witness: the process crashed inside write() leaving a partial temporary
\* file beside the untouched old output file.
C1_Witness ==
    /\ pc = "crashed"
    /\ IsPartial(temp)
    /\ before.final = OldFile
    /\ final = OldFile

\* C2: write() with no page registered returns NoPages, makes no library
\* call at all, and leaves both files and the page registry as they were.
C2_NoPagesNoFile ==
    (pc = "returned" /\ Len(before.pages) = 0) =>
        /\ ret = "NoPages"
        /\ trace = <<>>
        /\ ofile = "none"
        /\ temp = before.temp
        /\ final = before.final
        /\ pages = before.pages

\* C2 witness: write() returned NoPages on an empty document.
C2_Witness == pc = "returned" /\ ret = "NoPages" /\ Len(pages) = 0

\* C3 as claimed: the returned code alone tells the failing stage, so two
\* failed calls returning the same code failed in the same stage.
C3_CodeTellsStage ==
    (pc = "returned" /\ FailedStep # "none" /\ prevFail.code = ret) =>
        prevFail.stage = StageOf(FailedStep)

\* C3 amended: CouldNotOpenFile is returned for a failed open and for nothing
\* else; a failed serialization or fflush returns DynamicError; a failed fsync,
\* fclose or rename returns FileWriteError.  The open stage is told apart
\* from the later ones; a failed rename is not told apart from a failed
\* fsync or fclose.
C3_CodesPerStep ==
    pc = "returned" =>
        /\ (ret = "CouldNotOpenFile") <=> (FailedStep = "fopen")
        /\ FailedStep \in {"write_to_file", "fflush"} => ret = "DynamicError"
        /\ FailedStep \in {"fsync", "fclose", "rename"} => ret = "FileWriteError"
        /\ FailedStep = "none" => ret \in {"NoError", "NoPages"}

\* C3 witness: a failed rename returns the code the previous call returned
\* for a failure of the write stage.
C3_Witness ==
    /\ pc = "returned"
    /\ FailedStep = "rename"
    /\ ret = "FileWriteError"
    /\ prevFail = [stage |-> "write", code |-> "FileWriteError"]

CommitPrefix ==
    << [step |-> "fopen", ok |-> TRUE],
       [step |-> "write_to_file", ok |-> TRUE],
       [step |-> "fflush", ok |-> TRUE],
       [step |-> "fsync", ok |-> TRUE],
       [step |-> "fclose", ok |-> TRUE] >>

\* C4: rename is called only after the open, the serialization, fflush, fsync
\* and fclose of the temporary file have succeeded, in that order and with
\* nothing else in between; NoError is returned only after a successful
\* rename.
C4_RenameLast ==
    /\ \A i \in 1..Len(trace) :
          trace[i].step = "rename" => SubSeq(trace, 1, i - 1) = CommitPrefix
    /\ ret = "NoError" =>
          trace = Append(CommitPrefix, [step |-> "rename", ok |-> TRUE])

\* C4 witness: write() returned NoError.
C4_Witness == pc = "returned" /\ ret = "NoError" /\ final.data = NewDocument

\* C10: whenever write() returns after having opened the temporary file, the
\* stream has been closed, by exactly one fclose.
C10_ClosedExactlyOnce ==
    (pc = "returned" /\ Len(trace) > 0 /\ trace[1] = [step |-> "fopen", ok |-> TRUE]) =>
        /\ ofile = "closed"
        /\ Cardinality({i \in 1..Len(trace) : trace[i].step = "fclose"}) = 1

\* C10 witness: write() returned after a failed fsync.
C10_Witness == pc = "returned" /\ FailedStep = "fsync" /\ ofile = "closed"

(***************************************************************************)
(* Drawing contexts and the registries: SpecScope.                         *)
(***************************************************************************)
Live(c) == ctxs[c].state = "live"

\* Contexts are constructed in the order of their ids; an id is never reused.
NextFree(c) ==
    /\ ctxs[c].state = "free"
    /\ \A d \in 1..MaxCtx : d < c => ctxs[d].state # "free"

Construct(c, t, g, w, h) ==
    /\ pc = "idle"
    /\ NextFree(c)
    /\ ctxs' = [ctxs EXCEPT ![c] = [state |-> "live", type |-> t, cmds |-> NoCommands,
                                    guarded |-> g, w |-> w, h |-> h]]
    /\ UNCHANGED <<pages, patterns, call, writeVars, utfVars, tw>>

NewPageDrawContext ==
    \E c \in 1..MaxCtx : Construct(c, A4PDF_Page_Context, FALSE, 0, 0)

GuardedPageContext ==
    \E c \in 1..MaxCtx : Construct(c, A4PDF_Page_Context, TRUE, 0, 0)

\* A DrawContextPopper constructed directly, with a type that is not the
\* page type.
DirectPopper ==
    \E c \in 1..MaxCtx, t \in ContextTypes \ {A4PDF_Page_Context} :
        Construct(c, t, TRUE, 0, 0)

NewColorPatternBuilder ==
    \E c \in 1..MaxCtx, wh \in TileSizes :
        Construct(c, A4PDF_Color_Tiling_Pattern_Context, FALSE, wh[1], wh[2])

\* Any drawing operator appended to a live context.
Draw ==
    \E c \in 1..MaxCtx :
        /\ pc = "idle"
        /\ Live(c)
        /\ ctxs' = [ctxs EXCEPT ![c].cmds = SomeCommands]
        /\ UNCHANGED <<pages, patterns, call, writeVars, utfVars, tw>>

\* add_page without the check of the context's type.
add_page_NoTypeCheck(c, after) ==
    /\ pages' = Append(pages, [ctx |-> c, commands |-> ctxs[c].cmds])
    /\ ctxs' = [ctxs EXCEPT ![c].cmds = NoCommands, ![c].state = after]
    /\ call' = [op |-> "add_page", ctx |-> c, result |-> "ok", id |-> Len(pages)]

\* add_page without the ctx.clear() after the page is registered.
add_page_NoClear(c, after) ==
    IF ctxs[c].type # A4PDF_Page_Context
    THEN /\ call' = [op |-> "add_page", ctx |-> c, result |-> "runtime_error", id |-> -1]
         /\ UNCHANGED <<pages, ctxs>>
    ELSE /\ pages' = Append(pages, [ctx |-> c, commands |-> ctxs[c].cmds])
         /\ ctxs' = [ctxs EXCEPT ![c].state = after]
         /\ call' = [op |-> "add_page", ctx |-> c, result |-> "ok", id |-> Len(pages)]

\* PdfGen::add_page(ctx); `after` is the state the context is left in by the
\* caller (a DrawContextPopper is destroyed, any other caller keeps it).
add_page(c, after) ==
    IF ctxs[c].type # A4PDF_Page_Context
    THEN /\ call' = [op |-> "add_page", ctx |-> c, result |-> "runtime_error", id |-> -1]
         /\ UNCHANGED <<pages, ctxs>>
    ELSE \* sc = ctx.serialize(); pdoc.add_page(sc.dict, sc.commands); ctx.clear()
         /\ pages' = Append(pages, [ctx |-> c, commands |-> ctxs[c].cmds])
         /\ ctxs' = [ctxs EXCEPT ![c].cmds = NoCommands, ![c].state = after]
         /\ call' = [op |-> "add_page", ctx |-> c, result |-> "ok", id |-> Len(pages)]

AddPage ==
    \E c \in 1..MaxCtx :
        /\ pc = "idle"
        /\ Live(c)
        /\ Len(pages) < MaxPages
        /\ add_page(c, "live")
        /\ UNCHANGED <<patterns, writeVars, utfVars, tw>>

\* PdfGen::add_pattern(cp), cp a ColorPatternBuilder around context c.
add_pattern(c) ==
    IF ctxs[c].type # A4PDF_Color_Tiling_Pattern_Context
    THEN /\ call' = [op |-> "add_pattern", ctx |-> c, result |-> "runtime_error",
                     id |-> -1]
         /\ UNCHANGED patterns
    ELSE /\ patterns' = Append(patterns, [ctx |-> c, w |-> ctxs[c].w, h |-> ctxs[c].h,
                                          commands |-> ctxs[c].cmds])
         /\ call' = [op |-> "add_pattern", ctx |-> c, result |-> "ok",
                     id |-> Len(patterns)]

AddPattern ==
    \E c \in 1..MaxCtx :
        /\ pc = "idle"
        /\ Live(c)
        /\ Len(patterns) < MaxPatterns
        /\ add_pattern(c)
        /\ UNCHANGED <<ctxs, pages, writeVars, utfVars, tw>>

\* DrawContextPopper::~DrawContextPopper
PopperDtor ==
    \E c \in 1..MaxCtx :
        /\ pc = "idle"
        /\ Live(c)
        /\ ctxs[c].guarded
        /\ IF ctxs[c].type = A4PDF_Page_Context
           THEN /\ Len(pages) < MaxPages
                /\ add_page(c, "destroyed")
                /\ UNCHANGED pc
           ELSE /\ pc' = "aborted"
                /\ UNCHANGED <<ctxs, pages, call>>
        /\ UNCHANGED <<patterns, ret, ofile, obuf, temp, final, trace, before, prevFail>>
        /\ UNCHANGED <<utfVars, tw>>

InitScope ==
    /\ pages = <<>>
    /\ final = NoFile
    /\ temp = NoFile
    /\ pc = "idle"
    /\ ret = "none"
    /\ ofile = "none"
    /\ obuf = <<>>
    /\ trace = <<>>
    /\ before = NoSnapshot
    /\ prevFail = NoFail
    /\ ctxs = [c \in 1..MaxCtx |-> FreeCtx]
    /\ patterns = <<>>
    /\ call = NoCall
    /\ buf = <<>>
    /\ pos = 1
    /\ out = <<>>
    /\ tw = NoWidthCall

NextScope ==
    \/ NewPageDrawContext
    \/ GuardedPageContext
    \/ DirectPopper
    \/ NewColorPatternBuilder
    \/ Draw
    \/ AddPage
    \/ AddPattern
    \/ PopperDtor

SpecScope == InitScope /\ [][NextScope]_vars

(***************************************************************************)
(* Properties of add_page / add_pattern, checked under SpecScope.          *)
(***************************************************************************)
IsCall(op) == call' # call /\ call'.op = op

C5_Step ==
    /\ (IsCall("add_page") /\ ctxs[call'.ctx].type # A4PDF_Page_Context) =>
          /\ call'.result = "runtime_error"
          /\ pages' = pages
          /\ patterns' = patterns
    /\ (IsCall("add_pattern")
          /\ ctxs[call'.ctx].type # A4PDF_Color_Tiling_Pattern_Context) =>
          /\ call'.result = "runtime_error"
          /\ pages' = pages
          /\ patterns' = patterns
    /\ pages' # pages =>
          /\ IsCall("add_page")
          /\ ctxs[call'.ctx].type = A4PDF_Page_Context
          /\ pages' = Append(pages, [ctx |-> call'.ctx, commands |-> ctxs[call'.ctx].cmds])
    /\ patterns' # patterns =>
          /\ IsCall("add_pattern")
          /\ ctxs[call'.ctx].type = A4PDF_Color_Tiling_Pattern_Context
          /\ Len(patterns') = Len(patterns) + 1

\* C5: add_page on a context that is not of the page type, and add_pattern on
\* a builder whose context is not of the tiling-pattern type, fail and leave
\* both registries as they were; a registry grows only by a call of its own
\* path on a context of its own type.
C5_WrongPathRejected == [][C5_Step]_vars

\* C5 witness: add_page has just been refused for a pattern context, while
\* each registry holds an entry that came through its own path.
C5_Witness ==
    /\ call.op = "add_page"
    /\ call.result = "runtime_error"
    /\ ctxs[call.ctx].type = A4PDF_Color_Tiling_Pattern_Context
    /\ Len(pages) > 0
    /\ Len(patterns) > 0

EntriesOf(c) == {i \in 1..Len(pages) : pages[i].ctx = c}

\* C6 as claimed: a context closed by add_page is refused by a further
\* add_page, so no context has more than one entry in the page registry.
C6_ScopeClosesOnce == \A c \in 1..MaxCtx : Cardinality(EntriesOf(c)) <= 1

C6_Step ==
    (IsCall("add_page") /\ ctxs[call'.ctx].type = A4PDF_Page_Context) =>
        LET c == call'.ctx
        IN  /\ call'.result = "ok"
            /\ call'.id = Len(pages)
            /\ pages' = Append(pages, [ctx |-> c, commands |-> ctxs[c].cmds])
            /\ ctxs'[c].cmds = NoCommands
            /\ ctxs'[c].type = A4PDF_Page_Context

\* C6 amended: every add_page on a context of the page type, the first as
\* well as any later one on the same context, is accepted: it appends exactly
\* one entry holding the commands accumulated since the context was last
\* emptied, returns that entry's index, and leaves the context empty and
\* still of the page type.  A context contributes one entry per add_page
\* call made on it.
C6_EveryAddPageAccepted == [][C6_Step]_vars

\* C6 witness: one context has two entries in the page registry.
C6_Witness == \E c \in 1..MaxCtx : Cardinality(EntriesOf(c)) = 2

(***************************************************************************)
(* The codepoint decoder: SpecUtf.                                         *)
(***************************************************************************)
RECURSIVE BitAnd(_, _)
BitAnd(a, b) ==
    IF a = 0 \/ b = 0 THEN 0
    ELSE (a % 2) * (b % 2) + 2 * BitAnd(a \div 2, b \div 2)

RECURSIVE BitOr(_, _)
BitOr(a, b) ==
    IF a = 0 THEN b
    ELSE IF b = 0 THEN a
    ELSE (IF a % 2 = 1 \/ b % 2 = 1 THEN 1 ELSE 0) + 2 * BitOr(a \div 2, b \div 2)

\* x << n on a uint32_t: the bits shifted past bit 31 are dropped.
Shl(x, n) == (x % (2 ^ (32 - n))) * (2 ^ n)

\* What the decoder yields where the process is aborted.
Aborted == [codepoint |-> -1, byte_count |-> 0]

RECURSIVE unpack_loop(_, _, _, _)
unpack_loop(valid_utf8, par, i, unpacked) ==
    IF i >= par.num_subsequent_bytes THEN unpacked
    ELSE LET shifted == Shl(unpacked, 6)
             subsequent == valid_utf8[1 + i + 1]
         IN  IF BitAnd(shifted, \b111111) # 0 THEN -1
             ELSE unpack_loop(valid_utf8, par, i + 1,
                              BitOr(shifted, BitAnd(subsequent, \b111111)))

\* unpack_one without the mask that strips the width marker of the first byte.
unpack_one_Unmasked(valid_utf8, par) ==
    LET byte1 == valid_utf8[1]
    IN  unpack_loop(valid_utf8, par, 0, byte1)

\* unpack_one(valid_utf8, par); -1 where its assertion fails.
unpack_one(valid_utf8, par) ==
    LET byte1 == valid_utf8[1]
    IN  unpack_loop(valid_utf8, par, 0, BitAnd(byte1, par.byte1_data_mask))

\* CodepointIterator::extract_one_codepoint(buf), buf the bytes from the
\* iterator's position on.
extract_one_codepoint(b) ==
    LET twobyte_header_mask    == \b11100000
        twobyte_header_value   == \b11000000
        threebyte_header_mask  == \b11110000
        threebyte_header_value == \b11100000
        fourbyte_header_mask   == \b11111000
        fourbyte_header_value  == \b11110000
        code == b[1]
        Unpacked(par) ==
            LET u == unpack_one(b, par)
            IN  IF u = -1 THEN Aborted
                ELSE [codepoint |-> u, byte_count |-> 1 + par.num_subsequent_bytes]
    IN  IF code < \h80
        THEN [codepoint |-> code, byte_count |-> 1]
        ELSE IF BitAnd(code, twobyte_header_mask) = twobyte_header_value
        THEN Unpacked([byte1_data_mask |-> \b11111, num_subsequent_bytes |-> 1])
        ELSE IF BitAnd(code, threebyte_header_mask) = threebyte_header_value
        THEN Unpacked([byte1_data_mask |-> \b1111, num_subsequent_bytes |-> 2])
        ELSE IF BitAnd(code, fourbyte_header_mask) = fourbyte_header_value
        THEN Unpacked([byte1_data_mask |-> \b111, num_subsequent_bytes |-> 3])
        ELSE Aborted

\* The bytes the buffers are made of: ASCII, the lowest and highest leading
\* byte of each width (with ED, whose second byte is restricted), and the
\* continuation bytes with no payload bit and with every payload bit set.
ByteSample ==
    {\h24, \h7F, \hC2, \hDF, \hE0, \hED, \hEF, \hF0, \hF4, \h80, \hBF}

IsCont(x) == x >= \h80 /\ x <= \hBF

\* Well-formed UTF-8 byte sequences of one character (Unicode, table 3-7).
WellFormedChar(s) ==
    \/ /\ Len(s) = 1
       /\ s[1] <= \h7F
    \/ /\ Len(s) = 2
       /\ s[1] >= \hC2 /\ s[1] <= \hDF
       /\ IsCont(s[2])
    \/ /\ Len(s) = 3
       /\ s[1] >= \hE0 /\ s[1] <= \hEF
       /\ IsCont(s[2]) /\ IsCont(s[3])
       /\ s[1] = \hE0 => s[2] >= \hA0
       /\ s[1] = \hED => s[2] <= \h9F
    \/ /\ Len(s) = 4
       /\ s[1] >= \hF0 /\ s[1] <= \hF4
       /\ IsCont(s[2]) /\ IsCont(s[3]) /\ IsCont(s[4])
       /\ s[1] = \hF0 => s[2] >= \h90
       /\ s[1] = \hF4 => s[2] <= \h8F

WellFormedChars ==
    {s \in UNION {[1..n -> ByteSample] : n \in 1..4} : WellFormedChar(s)}

RECURSIVE WellFormedBuffers(_)
WellFormedBuffers(n) ==
    IF n = 0 THEN {<<>>}
    ELSE LET shorter == WellFormedBuffers(n - 1)
         IN  shorter \cup {s \o ch : s \in shorter, ch \in WellFormedChars}

\* One step of the iteration over buf: decode at pos, move past what was
\* consumed.
DecodeNext ==
    /\ pos <= Len(buf)
    /\ LET info == extract_one_codepoint(SubSeq(buf, pos, Len(buf)))
       IN  /\ info # Aborted
           /\ out' = Append(out, info)
           /\ pos' = pos + info.byte_count
    /\ UNCHANGED <<buf, pages, scopeVars, writeVars, tw>>

\* The iteration is restarted from the beginning of the buffer.
Restart ==
    /\ pos > Len(buf)
    /\ out # <<>>
    /\ pos' = 1
    /\ out' = <<>>
    /\ UNCHANGED <<buf, pages, scopeVars, writeVars, tw>>

InitUtf ==
    /\ buf \in WellFormedBuffers(MaxChars)
    /\ pos = 1
    /\ out = <<>>
    /\ pages = <<>>
    /\ final = NoFile
    /\ temp = NoFile
    /\ pc = "idle"
    /\ ret = "none"
    /\ ofile = "none"
    /\ obuf = <<>>
    /\ trace = <<>>
    /\ before = NoSnapshot
    /\ prevFail = NoFail
    /\ ctxs = [c \in 1..MaxCtx |-> FreeCtx]
    /\ patterns = <<>>
    /\ call = NoCall
    /\ tw = NoWidthCall

NextUtf ==
    \/ DecodeNext
    \/ Restart

SpecUtf == InitUtf /\ [][NextUtf]_vars

(***************************************************************************)
(* Properties of the decoder, checked under SpecUtf.                       *)
(***************************************************************************)
IsScalarValue(cp) ==
    /\ cp >= 0
    /\ cp <= \h10FFFF
    /\ ~(cp >= \hD800 /\ cp <= \hDFFF)

\* The UTF-8 encoding of a scalar value.
Encode(cp) ==
    IF cp < \h80 THEN <<cp>>
    ELSE IF cp < \h800
    THEN <<\hC0 + (cp \div 64), \h80 + (cp % 64)>>
    ELSE IF cp < \h10000
    THEN <<\hE0 + (cp \div 4096), \h80 + ((cp \div 64) % 64), \h80 + (cp % 64)>>
    ELSE <<\hF0 + (cp \div 262144), \h80 + ((cp \div 4096) % 64),
           \h80 + ((cp \div 64) % 64), \h80 + (cp % 64)>>

RECURSIVE ReEncoded(_)
ReEncoded(infos) ==
    IF infos = <<>> THEN <<>>
    ELSE Encode(Head(infos).codepoint) \o ReEncoded(Tail(infos))

\* C7: along a well-formed buffer every decoded value is a Unicode scalar
\* value whose consumed-byte count is the length of its UTF-8 encoding, and
\* re-encoding the values decoded so far gives back exactly the bytes
\* consumed so far: the whole buffer once the iteration is over.
C7_RoundTrip ==
    /\ \A i \in 1..Len(out) :
          /\ IsScalarValue(out[i].codepoint)
          /\ out[i].byte_count = Len(Encode(out[i].codepoint))
    /\ ReEncoded(out) = SubSeq(buf, 1, pos - 1)
    /\ pos <= Len(buf) + 1

\* C7 witness: a buffer of a four-byte and a three-byte character has been
\* decoded to its end.
C7_Witness ==
    /\ pos = Len(buf) + 1
    /\ Len(out) = 2
    /\ out[1] = [codepoint |-> \h100FFF, byte_count |-> 4]
    /\ out[2] = [codepoint |-> \hD03F, byte_count |-> 3]

(***************************************************************************)
(* PdfGen::utf8_text_width: SpecWidth.                                     *)
(***************************************************************************)
\* pdoc.fonts as seen through pdoc.font_objects: a face with kerning data, a
\* face without, and a builtin font, which has no face.
Fonts ==
    << [face |-> TRUE,  has_kerning |-> TRUE,  units_per_EM |-> 1000],
       [face |-> TRUE,  has_kerning |-> FALSE, units_per_EM |-> 2048],
       [face |-> FALSE, has_kerning |-> FALSE, units_per_EM |-> 0] >>

\* Font ids start at 0; the id past the last font is not in font_objects.
FontIds == 0..Len(Fonts)

ValidFontIds == 0..(Len(Fonts) - 1)

\* A byte sequence iconv does not accept as UTF-8.
Invalid == -1

\* What a text is made of: 'A', 'V', U+00E9, and an invalid sequence.
TextUnits == {\h41, \h56, \hE9, Invalid}

PointSizes == {10, 12}

IsAscii(text) == \A i \in 1..Len(text) : text[i] >= 0 /\ text[i] < \h80

\* C's integer division, which truncates toward zero.
TruncDiv(a, b) == IF a >= 0 THEN a \div b ELSE -((-a) \div b)

\* kerning.x as FT_Get_Kerning gives it for a pair of codepoints' glyphs.
KerningX(left, right) == IF left = \h41 /\ right = \h56 THEN -1500 ELSE 0

\* glyph_advance(fid, pointsize, codepoint): the advance, scaled.
glyph_advance(fid, pointsize, codepoint) ==
    pointsize * (IF codepoint = \h41 THEN 7 ELSE 6)

\* The while(in_bytes > 0) loop: i is the next unit of the text, prev the
\* previous codepoint (-1, the all-ones uint32_t, before the first).
RECURSIVE width_loop(_, _, _, _, _, _, _, _, _)
width_loop(font, fid, pointsize, text, kernFails, i, w, prev, kernings) ==
    LET result(o, d, a, k) ==
            [fid |-> fid, text |-> text, pointsize |-> pointsize, outcome |-> o,
             w |-> w, decoded |-> d, advances |-> a, kernings |-> k]
    IN  IF i > Len(text) THEN result("ok", i - 1, i - 1, kernings)
        ELSE IF text[i] = Invalid THEN result("iconv_error", i, i - 1, kernings)
        ELSE LET codepoint == text[i]
                 kerns == font.has_kerning /\ prev # -1
                 kx == KerningX(prev, codepoint)
                 wk == IF kerns /\ kx # 0 THEN w + TruncDiv(kx, font.units_per_EM)
                       ELSE w
             IN  IF kerns /\ kernFails
                 THEN result("kerning_error", i, i - 1, kernings + 1)
                 ELSE width_loop(font, fid, pointsize, text, kernFails, i + 1,
                                 wk + glyph_advance(fid, pointsize, codepoint),
                                 codepoint,
                                 IF kerns THEN kernings + 1 ELSE kernings)

Thrown(text, fid, pointsize, what) ==
    [fid |-> fid, text |-> text, pointsize |-> pointsize, outcome |-> what,
     w |-> 0, decoded |-> 0, advances |-> 0, kernings |-> 0]

\* utf8_text_width with the width starting at the point size instead of 0.
utf8_text_width_WrongStart(text, fid, pointsize, openErrno, kernFails) ==
    IF openErrno THEN Thrown(text, fid, pointsize, "iconv_open_error")
    ELSE IF fid \notin ValidFontIds THEN Thrown(text, fid, pointsize, "out_of_range")
    ELSE IF ~Fonts[fid + 1].face THEN Thrown(text, fid, pointsize, "builtin_font_error")
    ELSE width_loop(Fonts[fid + 1], fid, pointsize, text, kernFails, 1, pointsize, -1, 0)

\* utf8_text_width refusing a font without a face only for text that is not
\* ASCII, and measuring ASCII text with it.
utf8_text_width_AsciiAllowed(text, fid, pointsize, openErrno, kernFails) ==
    IF openErrno THEN Thrown(text, fid, pointsize, "iconv_open_error")
    ELSE IF fid \notin ValidFontIds THEN Thrown(text, fid, pointsize, "out_of_range")
    ELSE IF ~Fonts[fid + 1].face /\ ~IsAscii(text)
    THEN Thrown(text, fid, pointsize, "builtin_font_error")
    ELSE width_loop(Fonts[fid + 1], fid, pointsize, text, kernFails, 1, 0, -1, 0)

\* PdfGen::utf8_text_width(utf8_text, fid, pointsize).  openErrno: errno is
\* not 0 after iconv_open; kernFails: FT_Get_Kerning returns an error.
utf8_text_width(text, fid, pointsize, openErrno, kernFails) ==
    IF openErrno THEN Thrown(text, fid, pointsize, "iconv_open_error")
    ELSE IF fid \notin ValidFontIds THEN Thrown(text, fid, pointsize, "out_of_range")
    ELSE IF ~Fonts[fid + 1].face THEN Thrown(text, fid, pointsize, "builtin_font_error")
    ELSE width_loop(Fonts[fid + 1], fid, pointsize, text, kernFails, 1, 0, -1, 0)

Utf8TextWidth ==
    \E text \in SeqsUpTo(TextUnits, MaxTextLen), fid \in FontIds,
       pointsize \in PointSizes, openErrno \in BOOLEAN, kernFails \in BOOLEAN :
        /\ tw' = utf8_text_width(text, fid, pointsize, openErrno, kernFails)
        /\ UNCHANGED <<pages, scopeVars, writeVars, utfVars>>

InitWidth ==
    /\ tw = NoWidthCall
    /\ buf = <<>>
    /\ pos = 1
    /\ out = <<>>
    /\ pages = <<>>
    /\ final = NoFile
    /\ temp = NoFile
    /\ pc = "idle"
    /\ ret = "none"
    /\ ofile = "none"
    /\ obuf = <<>>
    /\ trace = <<>>
    /\ before = NoSnapshot
    /\ prevFail = NoFail
    /\ ctxs = [c \in 1..MaxCtx |-> FreeCtx]
    /\ patterns = <<>>
    /\ call = NoCall

NextWidth == Utf8TextWidth

SpecWidth == InitWidth /\ [][NextWidth]_vars

(***************************************************************************)
(* Properties of utf8_text_width, checked under SpecWidth.                 *)
(***************************************************************************)
Called == tw.outcome # "none"

HasFace(fid) == fid \in ValidFontIds /\ Fonts[fid + 1].face

Faceless(fid) == fid \in ValidFontIds /\ ~Fonts[fid + 1].face

NothingMeasured == tw.w = 0 /\ tw.decoded = 0 /\ tw.advances = 0 /\ tw.kernings = 0

\* C8 as claimed: for the empty string and any font handle of the registry
\* the call returns 0, having decoded nothing and looked up no advance and
\* no kerning.
C8_EmptyTextAnyFont ==
    (Called /\ tw.text = <<>> /\ tw.fid \in ValidFontIds) =>
        tw.outcome = "ok" /\ NothingMeasured

\* C8 amended: for the empty string and a font handle that has a face the
\* call returns exactly 0 once iconv_open has succeeded, and in no case
\* decodes a codepoint or looks up an advance or a kerning pair; with a font
\* handle that has no face it throws instead of returning 0.
C8_EmptyTextFontWithFace ==
    (Called /\ tw.text = <<>>) =>
        /\ NothingMeasured
        /\ HasFace(tw.fid) => tw.outcome \in {"ok", "iconv_open_error"}
        /\ Faceless(tw.fid) => tw.outcome \in {"builtin_font_error", "iconv_open_error"}

\* C8 witness: the empty string measured with a font that has a face and
\* kerning data.
C8_Witness ==
    /\ tw.text = <<>>
    /\ tw.outcome = "ok"
    /\ tw.fid = 0
    /\ tw.w = 0

\* C9 as claimed: with a font handle that has no face the call succeeds
\* exactly for the texts that are 7-bit ASCII throughout.
C9_BuiltinFontMeasuresAscii ==
    (Called /\ Faceless(tw.fid)) => (tw.outcome = "ok" <=> IsAscii(tw.text))

\* C9 amended: with a font handle that has no face the call fails for every
\* text, 7-bit ASCII or not, empty or not, before it decodes anything.
C9_BuiltinFontAlwaysFails ==
    (Called /\ Faceless(tw.fid)) =>
        /\ tw.outcome \in {"builtin_font_error", "iconv_open_error"}
        /\ NothingMeasured

\* C9 witness: a text of ASCII letters refused for a font without a face.
C9_Witness ==
    /\ Faceless(tw.fid)
    /\ tw.text = <<\h41, \h56>>
    /\ tw.outcome = "builtin_font_error"

====
